---- MODULE Spec2Model ----
(***************************************************************************)
(* Model of src/app.py (Sustaina shipping risk dashboard).                 *)
(*                                                                         *)
(* The page is a script that is re-run from top to bottom every time a     *)
(* widget value changes.  One action of the model is one such re-run: the  *)
(* widget takes its new value and the whole script (modeled calculations,  *)
(* levers, dashboard, certificate record, certificate id, PDF levers) is   *)
(* evaluated again.                                                        *)
(*                                                                         *)
(* Arithmetic.  The code computes in binary floating point.  The model     *)
(* computes the same expressions exactly, in decimal fixed point:          *)
(*   - a risk signal s is the integer s * SignalUnit,                      *)
(*   - a risk score r is the integer r * ScoreUnit,                        *)
(*   - tonnes and EUR are naturals in base 1000, least significant limb    *)
(*     first, over a fixed power-of-ten denominator (FuelScale, Co2Scale,  *)
(*     CostScale limbs after the decimal point).                           *)
(***************************************************************************)
EXTENDS Integers, Sequences, FiniteSets, TLC

(***************************************************************************)
(* Bounds of the model.                                                    *)
(***************************************************************************)
YearStride == 34        \* year built is sampled every YearStride years
MaxClockDays == 2       \* days the system clock may advance
PostureWindow == 20     \* thousandths probed on each side of a threshold

(***************************************************************************)
(* Unbound names and failed subscripts.  A Python name that has not been   *)
(* assigned yet is Unbound; a value v that has been assigned is Bound(v).  *)
(***************************************************************************)
Unbound == <<>>
Bound(v) == <<v>>
Val(x) == x[1]

(***************************************************************************)
(* Reference tables (app.py 49-71) and the inline tables of the modeled    *)
(* calculations.  Factors are kept as integers: emission factors in        *)
(* thousandths, multipliers in hundredths, signals in 1/SignalUnit.        *)
(***************************************************************************)
SignalUnit == 300
ScoreUnit == 3000

FUEL_EF_CO2 ==
    ("HFO (Heavy Fuel Oil)" :> 3114) @@
    ("MGO/MDO (Marine Gas Oil/Diesel)" :> 3206) @@
    ("LNG" :> 2750) @@
    ("Methanol (Low-Carbon/Green blend)" :> 1375) @@
    ("Ammonia (Green)" :> 0)

SHIP_TYPE_MULT ==
    ("Container" :> 115) @@ ("Bulk carrier" :> 100) @@ ("Tanker" :> 105) @@
    ("Ro-Ro" :> 110) @@ ("General cargo" :> 95) @@ ("Other" :> 100)

ENGINE_RISK ==
    ("2-stroke low-speed" :> 100) @@ ("4-stroke medium-speed" :> 105) @@
    ("Dual-fuel" :> 95) @@ ("Unknown" :> 110)

SPEED_MULT == ("Slow steaming" :> 80) @@ ("Normal" :> 100) @@ ("Fast" :> 118)

RETROFIT_RISK == ("None" :> 300) @@ ("Planned" :> 180) @@ ("Installed" :> 90)

EU_RISK == ("None" :> 60) @@ ("Partial" :> 180) @@ ("High" :> 300)

FUEL_PATHWAY_RISK ==
    ("HFO (Heavy Fuel Oil)" :> 300) @@
    ("MGO/MDO (Marine Gas Oil/Diesel)" :> 270) @@
    ("LNG" :> 225) @@
    ("Methanol (Low-Carbon/Green blend)" :> 135) @@
    ("Ammonia (Green)" :> 105)

CARBON_PRICE == ("None" :> 30) @@ ("Partial" :> 75) @@ ("High" :> 110)

(***************************************************************************)
(* Widget ranges and defaults.                                             *)
(***************************************************************************)
YEAR_MIN == 1970
YEAR_DEFAULT == 2010
DWT_DEFAULT == 60000
OD_DEFAULT == 300
CERT_MIN == 7
CERT_MAX == 365
CERT_DEFAULT == 90


(***************************************************************************)
(* Exact decimal arithmetic standing for the float products of lines       *)
(* 116-121 and 158: naturals in base 1000, least significant limb first.   *)
(***************************************************************************)
Limb == 1000

RECURSIVE BigMulCarry(_, _, _)
BigMulCarry(a, m, carry) ==
    IF a = <<>>
    THEN IF carry = 0 THEN <<>>
         ELSE <<carry % Limb>> \o BigMulCarry(<<>>, m, carry \div Limb)
    ELSE LET t == Head(a) * m + carry
         IN <<t % Limb>> \o BigMulCarry(Tail(a), m, t \div Limb)

\* a * m; a product by zero is zero, the empty limb sequence
BigMul(a, m) == IF m = 0 THEN <<>> ELSE BigMulCarry(a, m, 0)

BigOfInt(n) == BigMul(<<1>>, n)

\* a * 1000^k
BigShift(a, k) == IF a = <<>> THEN <<>> ELSE [i \in 1..k |-> 0] \o a

RECURSIVE BigLeqFrom(_, _, _)
BigLeqFrom(a, b, i) ==
    IF i = 0 THEN TRUE
    ELSE IF a[i] # b[i] THEN a[i] < b[i]
    ELSE BigLeqFrom(a, b, i - 1)

\* a <= b (no leading zero limbs in a, b)
BigLeq(a, b) ==
    IF Len(a) # Len(b) THEN Len(a) < Len(b) ELSE BigLeqFrom(a, b, Len(a))

FuelScale == 3      \* annual_fuel_tonnes = limbs / 1000^3
Co2Scale == 4       \* annual_co2_tonnes  = limbs / 1000^4
CostScale == 5      \* annual_cost_est_eur = limbs / 1000^5

Min(a, b) == IF a < b THEN a ELSE b
Max(a, b) == IF a > b THEN a ELSE b

\* Faulty variant: table.get(key, default) in place of table[key]
SubscriptOrDefault(table, key) ==
    IF key \in DOMAIN table THEN Bound(table[key])
    ELSE Bound(table[CHOOSE k \in DOMAIN table : TRUE])

(***************************************************************************)
(* table[key] of Python: the value, or a KeyError (Unbound).               *)
(***************************************************************************)
Subscript(table, key) ==
    IF key \in DOMAIN table THEN Bound(table[key]) ELSE Unbound

(***************************************************************************)
(* datetime.date: a date is [year, month, day]; str(date) is ISO format.   *)
(***************************************************************************)
IsLeap(y) == (y % 4 = 0 /\ y % 100 # 0) \/ y % 400 = 0

DaysInMonth(y, m) ==
    IF m = 2 THEN (IF IsLeap(y) THEN 29 ELSE 28)
    ELSE IF m \in {4, 6, 9, 11} THEN 30 ELSE 31

FirstOfNextMonth(d) ==
    IF d.month = 12 THEN [year |-> d.year + 1, month |-> 1, day |-> 1]
    ELSE [year |-> d.year, month |-> d.month + 1, day |-> 1]

\* date + timedelta(days=n)
RECURSIVE AddDays(_, _)
AddDays(d, n) ==
    LET left == DaysInMonth(d.year, d.month) - d.day
    IN IF n <= left THEN [d EXCEPT !.day = d.day + n]
       ELSE AddDays(FirstOfNextMonth(d), n - left - 1)

\* str(date): "YYYY-MM-DD", kept as its three fields in print order
DateStr(d) == <<d.year, d.month, d.day>>

(***************************************************************************)
(* The system clock.  The model starts on StartDate and lets the clock     *)
(* advance at most MaxClockDays days.                                      *)
(***************************************************************************)
StartDate == [year |-> 2024, month |-> 12, day |-> 30]
ClockDays == {AddDays(StartDate, i) : i \in 0..MaxClockDays}

DateLeq(a, b) ==
    \/ a.year < b.year
    \/ a.year = b.year /\ a.month < b.month
    \/ a.year = b.year /\ a.month = b.month /\ a.day <= b.day

(***************************************************************************)
(* Text inputs.  Texts are drawn from small sets; Utf8 gives each text its *)
(* byte string, kept as one code per text.                                 *)
(***************************************************************************)
Orgs == {"Demo Shipping Ltd", "Nordic Bulk AS"}
Imos == {"IMO1234567", "IMO7654321"}
VesselNames == {"MV Example", "MV Aurora"}

Utf8 ==
    ("Demo Shipping Ltd" :> 11) @@ ("Nordic Bulk AS" :> 12) @@
    ("IMO1234567" :> 21) @@ ("IMO7654321" :> 22) @@
    ("MV Example" :> 31) @@ ("MV Aurora" :> 32)

(***************************************************************************)
(* make_cert_id (213-216).  The digest stands for the first ten hex digits *)
(* of SHA-256: a deterministic mixing of the encoded base string.          *)
(***************************************************************************)
DigestMod == 1048573

RECURSIVE Digest(_, _)
Digest(bytes, h) ==
    IF bytes = <<>> THEN h
    ELSE Digest(Tail(bytes), (h * 131 + Head(bytes) + 7) % DigestMod)

CertBase(rec) ==
    <<Utf8[rec.Organization], Utf8[rec.IMO], Utf8[rec.Vessel_name]>>
        \o rec.Valid_from \o rec.Valid_until

\* clock is the value of date.today() when the function body runs
make_cert_id(rec, clock) ==
    [prefix |-> "SUS", year |-> clock.year, h |-> Digest(CertBase(rec), 0)]

make_verification_url(cert_id) ==
    [host |-> "https://verify.sustaina.local/", id |-> cert_id]

(***************************************************************************)
(* Modeled calculations (112-175).                                         *)
(***************************************************************************)
\* (dwt / 10000) * 1.2 * SHIP_TYPE_MULT * speed_mult * operating_days
AnnualFuel(dwt_, ship_mult, speed_mult, operating_days_) ==
    BigMul(BigMul(BigMul(BigMul(BigOfInt(dwt_), 12), ship_mult), speed_mult),
           operating_days_)

\* Faulty variant: the division by 1000 is missing (kilograms reported as tonnes)
AnnualCo2InKg(fuel, ef) == BigMul(BigMul(fuel, 1000), ef)

\* (annual_fuel_tonnes * 1000 * ef) / 1000
AnnualCo2(fuel, ef) == BigMul(fuel, ef)

\* Faulty variant: (age - 5) / 25 without the clamp
AgeRiskUnclamped(age_) == ((age_ - 5) * SignalUnit) \div 25

\* min(1.0, max(0.0, (age - 5) / 25))
AgeRisk(age_) == Min(SignalUnit, Max(0, ((age_ - 5) * SignalUnit) \div 25))

\* min(1.0, (ENGINE_RISK[engine_type] - 0.9) / 0.3)
EngineRisk(factor) == Min(SignalUnit, ((factor - 90) * SignalUnit) \div 30)

W_EU == 30
W_AGE == 25
W_RETROFIT == 20
W_FUEL == 15
W_ENGINE == 10

\* Faulty variant: the engine weight is 1.0 instead of 0.10 and the clamp is missing
RiskScoreNoClamp(eu, ar, rr, fpr, er) ==
    (ScoreUnit \div SignalUnit) *
    (W_EU * eu + W_AGE * ar + W_RETROFIT * rr + W_FUEL * fpr + 100 * er)

\* 100 * (weighted sum), then float(max(0, min(100, risk_score)))
RiskScore(eu, ar, rr, fpr, er) ==
    LET raw == (ScoreUnit \div SignalUnit) *
               (W_EU * eu + W_AGE * ar + W_RETROFIT * rr + W_FUEL * fpr
                + W_ENGINE * er)
    IN Max(0, Min(100 * ScoreUnit, raw))

\* Faulty variant: the first comparison is strict
PostureStrict(score) ==
    IF score > 75 * ScoreUnit THEN "SEVERE EXPOSURE"
    ELSE IF score >= 55 * ScoreUnit THEN "HIGH EXPOSURE"
    ELSE IF score >= 35 * ScoreUnit THEN "MODERATE EXPOSURE"
    ELSE "LOWER EXPOSURE"

Posture(score) ==
    IF score >= 75 * ScoreUnit THEN "SEVERE EXPOSURE"
    ELSE IF score >= 55 * ScoreUnit THEN "HIGH EXPOSURE"
    ELSE IF score >= 35 * ScoreUnit THEN "MODERATE EXPOSURE"
    ELSE "LOWER EXPOSURE"

\* Faulty variant: the coverage of "Partial" and of "High" are exchanged
CoverageMultSwapped(eu) ==
    IF eu = "None" THEN 0 ELSE IF eu = "Partial" THEN 1000 ELSE 600

\* 0.0 if eu_exposure == "None" else (0.6 if eu_exposure == "Partial" else 1.0)
CoverageMult(eu) ==
    IF eu = "None" THEN 0 ELSE IF eu = "Partial" THEN 600 ELSE 1000

\* annual_co2_tonnes * carbon_price * coverage_mult
AnnualCost(co2, price, cov) == BigMul(BigMul(co2, price), cov)

LEVER_RETROFIT ==
    "Prepare retrofit pathway plan (efficiency / capture-readiness) to reduce compliance friction."
LEVER_ROUTING ==
    "Introduce speed + route efficiency policy to reduce jurisdictional cost exposure."
LEVER_TRANSITION_FUEL ==
    "Evaluate transition fuel readiness (methanol / ammonia strategy) for medium-term resilience."
LEVER_METHANE ==
    "Flag methane slip as a material risk dimension; add monitoring roadmap (CH4 focus)."
LEVER_AGE ==
    "High age-profile: strengthen charter/finance narrative using improvement evidence + plan."
NO_LEVERS == "No major levers detected."

AppendIf(list, cond, x) == IF cond THEN Append(list, x) ELSE list

\* Faulty variant: LNG is also treated as a fuel to move away from
IsTransitionFuelCaseWithLng(fuel) ==
    fuel \in {"HFO (Heavy Fuel Oil)", "MGO/MDO (Marine Gas Oil/Diesel)", "LNG"}

IsTransitionFuelCase(fuel) ==
    fuel \in {"HFO (Heavy Fuel Oil)", "MGO/MDO (Marine Gas Oil/Diesel)"}

\* Faulty variant: age > 20
IsAgedAssetStrict(age_) == age_ > 20

IsAgedAsset(age_) == age_ >= 20

Levers(retrofit, eu, fuel, age_) ==
    LET l1 == AppendIf(<<>>, retrofit = "None", LEVER_RETROFIT)
        l2 == AppendIf(l1, eu \in {"Partial", "High"}, LEVER_ROUTING)
        l3 == AppendIf(l2, IsTransitionFuelCase(fuel), LEVER_TRANSITION_FUEL)
        l4 == AppendIf(l3, fuel = "LNG", LEVER_METHANE)
    IN AppendIf(l4, IsAgedAsset(age_), LEVER_AGE)

\* st.write of each lever, or of the fallback line (202-206)
DashboardLevers(list) == IF list # <<>> THEN list ELSE <<NO_LEVERS>>

\* Faulty variant: the record carries the list as computed, with no fallback line
RecordLeversNoFallback(list) == list

\* levers if levers else ["No major levers detected."] (498)
RecordLevers(list) == IF list # <<>> THEN list ELSE <<NO_LEVERS>>

\* for lev in record["Levers"][:4] (418-420)
PdfLevers(list) == SubSeq(list, 1, Min(4, Len(list)))

(***************************************************************************)
(* One run of the script from line 112 to the end, on the widget values p. *)
(* The statements run in source order; a KeyError raised by a subscript    *)
(* ends the run, and every name assigned after it stays Unbound.           *)
(* c123, c463 and c216 are the values date.today() returns at lines 123,   *)
(* 463 and 216 (the last inside make_cert_id, called at 501).              *)
(***************************************************************************)
Guarded(ok, v) == IF ok THEN Bound(v) ELSE Unbound

Run(p, c123, c463, c216) ==
    LET speed_mult == Subscript(SPEED_MULT, p.speed_profile)            \* 115
        ok115 == speed_mult # Unbound
        ship_mult == Subscript(SHIP_TYPE_MULT, p.ship_type)             \* 117
        ok117 == ok115 /\ ship_mult # Unbound
        fuel == Guarded(ok117,
                    AnnualFuel(p.dwt, Val(ship_mult), Val(speed_mult),
                               p.operating_days))                       \* 118
        ef == Subscript(FUEL_EF_CO2, p.fuel_type)                       \* 120
        ok120 == ok117 /\ ef # Unbound
        co2 == Guarded(ok120, AnnualCo2(Val(fuel), Val(ef)))            \* 121
        age_ == c123.year - p.year_built                                \* 123
        ar == Guarded(ok120, AgeRisk(age_))                             \* 124
        factor == Subscript(ENGINE_RISK, p.engine_type)                 \* 125
        ok125 == ok120 /\ factor # Unbound
        er == Guarded(ok125, EngineRisk(Val(factor)))
        rr_ == Subscript(RETROFIT_RISK, p.retrofit_status)              \* 126
        ok126 == ok125 /\ rr_ # Unbound
        eu_ == Subscript(EU_RISK, p.eu_exposure)                        \* 127
        ok127 == ok126 /\ eu_ # Unbound
        fpr_ == Subscript(FUEL_PATHWAY_RISK, p.fuel_type)               \* 129
        ok129 == ok127 /\ fpr_ # Unbound
        score == Guarded(ok129,
                    RiskScore(Val(eu_), Val(ar), Val(rr_), Val(fpr_),
                              Val(er)))                                 \* 137
        price == Subscript(CARBON_PRICE, p.eu_exposure)                 \* 156
        ok156 == ok129 /\ price # Unbound
        cost == Guarded(ok156,
                    AnnualCost(Val(co2), Val(price),
                               CoverageMult(p.eu_exposure)))            \* 158
        lev == Guarded(ok156,
                    Levers(p.retrofit_status, p.eu_exposure, p.fuel_type,
                           age_))                                       \* 165
        valid_from == c463                                              \* 463
        valid_until == AddDays(valid_from, p.cert_valid_days)           \* 464
        rec0 == [Organization |-> p.org,
                 Vessel_name |-> p.vessel_name,
                 IMO |-> p.imo,
                 Issued_on |-> DateStr(valid_from),
                 Valid_from |-> DateStr(valid_from),
                 Valid_until |-> DateStr(valid_until),
                 Risk_score |-> Val(score),
                 Posture |-> Posture(Val(score)),
                 Annual_CO2 |-> Val(co2),
                 Levers |-> RecordLevers(Val(lev))]                     \* 466
        id == make_cert_id(rec0, c216)                                  \* 501
        rec == [Certificate_ID |-> id,
                Verification_URL |-> make_verification_url(id)] @@ rec0 \* 502
    IN [annual_fuel_tonnes |-> fuel,
        annual_co2_tonnes |-> co2,
        age |-> Guarded(ok120, age_),
        age_risk |-> ar,
        engine_risk |-> er,
        retrofit_risk |-> Guarded(ok126, Val(rr_)),
        eu_risk |-> Guarded(ok127, Val(eu_)),
        fuel_pathway_risk |-> Guarded(ok129, Val(fpr_)),
        risk_score |-> score,
        posture |-> Guarded(ok129, Posture(Val(score))),
        annual_cost_est_eur |-> cost,
        levers |-> lev,
        dashboard_levers |-> Guarded(ok156, DashboardLevers(Val(lev))),
        record |-> Guarded(ok156, rec),
        pdf_levers |-> Guarded(ok156, PdfLevers(rec.Levers)),
        phase |-> IF ok156 THEN "rendered" ELSE "KeyError"]

(***************************************************************************)
(* State.                                                                  *)
(***************************************************************************)
VARIABLES
    today,                  \* the system clock (a date)
    org, imo, vessel_name, cert_valid_days,
    ship_type, year_built, dwt, engine_type, fuel_type, speed_profile,
    retrofit_status, operating_days, eu_exposure,
    annual_fuel_tonnes, annual_co2_tonnes, age, age_risk, engine_risk,
    retrofit_risk, eu_risk, fuel_pathway_risk, risk_score, posture,
    annual_cost_est_eur, levers, dashboard_levers, record, pdf_levers,
    phase                   \* "input", "rendered", "KeyError", "probe", "classified"

identity == <<org, imo, vessel_name, cert_valid_days>>
profile == <<ship_type, year_built, dwt, engine_type, fuel_type,
             speed_profile, retrofit_status, operating_days, eu_exposure>>
outputs == <<annual_fuel_tonnes, annual_co2_tonnes, age, age_risk,
             engine_risk, retrofit_risk, eu_risk, fuel_pathway_risk,
             risk_score, posture, annual_cost_est_eur, levers,
             dashboard_levers, record, pdf_levers>>
vars == <<today, identity, profile, outputs, phase>>

Widgets ==
    [org |-> org, imo |-> imo, vessel_name |-> vessel_name,
     cert_valid_days |-> cert_valid_days, ship_type |-> ship_type,
     year_built |-> year_built, dwt |-> dwt, engine_type |-> engine_type,
     fuel_type |-> fuel_type, speed_profile |-> speed_profile,
     retrofit_status |-> retrofit_status, operating_days |-> operating_days,
     eu_exposure |-> eu_exposure]

\* the outputs take the values of the run r
Assign(r) ==
    /\ annual_fuel_tonnes' = r.annual_fuel_tonnes
    /\ annual_co2_tonnes' = r.annual_co2_tonnes
    /\ age' = r.age
    /\ age_risk' = r.age_risk
    /\ engine_risk' = r.engine_risk
    /\ retrofit_risk' = r.retrofit_risk
    /\ eu_risk' = r.eu_risk
    /\ fuel_pathway_risk' = r.fuel_pathway_risk
    /\ risk_score' = r.risk_score
    /\ posture' = r.posture
    /\ annual_cost_est_eur' = r.annual_cost_est_eur
    /\ levers' = r.levers
    /\ dashboard_levers' = r.dashboard_levers
    /\ record' = r.record
    /\ pdf_levers' = r.pdf_levers
    /\ phase' = r.phase

(***************************************************************************)
(* Values a widget can take.  The select boxes offer exactly the keys of   *)
(* their tables; year built is sampled inside its range; DWT and           *)
(* operating days stay at the widgets' default values.                     *)
(***************************************************************************)
YearChoices(now) ==
    {y \in YEAR_MIN..now.year :
        \/ y \in {YEAR_MIN, YEAR_DEFAULT, now.year}
        \/ (y - YEAR_MIN) % YearStride = 0}

CertValidChoices == {CERT_MIN, CERT_DEFAULT, CERT_MAX}

Defaults ==
    [org |-> "Demo Shipping Ltd", imo |-> "IMO1234567",
     vessel_name |-> "MV Example", cert_valid_days |-> CERT_DEFAULT,
     ship_type |-> "Container", year_built |-> YEAR_DEFAULT,
     dwt |-> DWT_DEFAULT, engine_type |-> "2-stroke low-speed",
     fuel_type |-> "HFO (Heavy Fuel Oil)", speed_profile |-> "Normal",
     retrofit_status |-> "None", operating_days |-> OD_DEFAULT,
     eu_exposure |-> "Partial"]

WidgetsAre(w) ==
    /\ org = w.org /\ imo = w.imo /\ vessel_name = w.vessel_name
    /\ cert_valid_days = w.cert_valid_days
    /\ ship_type = w.ship_type /\ year_built = w.year_built /\ dwt = w.dwt
    /\ engine_type = w.engine_type /\ fuel_type = w.fuel_type
    /\ speed_profile = w.speed_profile
    /\ retrofit_status = w.retrofit_status
    /\ operating_days = w.operating_days /\ eu_exposure = w.eu_exposure

OutputsAre(r) ==
    /\ annual_fuel_tonnes = r.annual_fuel_tonnes
    /\ annual_co2_tonnes = r.annual_co2_tonnes
    /\ age = r.age
    /\ age_risk = r.age_risk
    /\ engine_risk = r.engine_risk
    /\ retrofit_risk = r.retrofit_risk
    /\ eu_risk = r.eu_risk
    /\ fuel_pathway_risk = r.fuel_pathway_risk
    /\ risk_score = r.risk_score
    /\ posture = r.posture
    /\ annual_cost_est_eur = r.annual_cost_est_eur
    /\ levers = r.levers
    /\ dashboard_levers = r.dashboard_levers
    /\ record = r.record
    /\ pdf_levers = r.pdf_levers
    /\ phase = r.phase

\* The page as first rendered: every widget at its default value.
Init ==
    /\ today = StartDate
    /\ WidgetsAre(Defaults)
    /\ \E r \in {Run(Defaults, StartDate, StartDate, StartDate)} : OutputsAre(r)

(***************************************************************************)
(* A re-run of the script on the new widget values.  The clock reads of    *)
(* one run never go backwards.                                             *)
(***************************************************************************)
Rerun(c123, c463, c216) ==
    /\ \E w \in {Widgets'} : \E r \in {Run(w, c123, c463, c216)} : Assign(r)
    /\ today' = c216

RerunNow == Rerun(today, today, today)

SetShipType ==
    \E v \in DOMAIN SHIP_TYPE_MULT \ {ship_type} :
        /\ ship_type' = v
        /\ UNCHANGED <<identity, year_built, dwt, engine_type, fuel_type,
                       speed_profile, retrofit_status, operating_days,
                       eu_exposure>>
        /\ RerunNow

SetYearBuilt ==
    \E v \in YearChoices(today) \ {year_built} :
        /\ year_built' = v
        /\ UNCHANGED <<identity, ship_type, dwt, engine_type, fuel_type,
                       speed_profile, retrofit_status, operating_days,
                       eu_exposure>>
        /\ RerunNow

SetEngineType ==
    \E v \in DOMAIN ENGINE_RISK \ {engine_type} :
        /\ engine_type' = v
        /\ UNCHANGED <<identity, ship_type, year_built, dwt, fuel_type,
                       speed_profile, retrofit_status, operating_days,
                       eu_exposure>>
        /\ RerunNow

SetFuelType ==
    \E v \in DOMAIN FUEL_EF_CO2 \ {fuel_type} :
        /\ fuel_type' = v
        /\ UNCHANGED <<identity, ship_type, year_built, dwt, engine_type,
                       speed_profile, retrofit_status, operating_days,
                       eu_exposure>>
        /\ RerunNow

SetSpeedProfile ==
    \E v \in DOMAIN SPEED_MULT \ {speed_profile} :
        /\ speed_profile' = v
        /\ UNCHANGED <<identity, ship_type, year_built, dwt, engine_type,
                       fuel_type, retrofit_status, operating_days,
                       eu_exposure>>
        /\ RerunNow

SetRetrofitStatus ==
    \E v \in DOMAIN RETROFIT_RISK \ {retrofit_status} :
        /\ retrofit_status' = v
        /\ UNCHANGED <<identity, ship_type, year_built, dwt, engine_type,
                       fuel_type, speed_profile, operating_days,
                       eu_exposure>>
        /\ RerunNow

SetEuExposure ==
    \E v \in DOMAIN EU_RISK \ {eu_exposure} :
        /\ eu_exposure' = v
        /\ UNCHANGED <<identity, ship_type, year_built, dwt, engine_type,
                       fuel_type, speed_profile, retrofit_status,
                       operating_days>>
        /\ RerunNow

Next ==
    \/ SetShipType
    \/ SetYearBuilt
    \/ SetEngineType
    \/ SetFuelType
    \/ SetSpeedProfile
    \/ SetRetrofitStatus
    \/ SetEuExposure

Spec == Init /\ [][Next]_vars

(***************************************************************************)
(* Certificate issuance.  The identity and validity widgets change, the    *)
(* download button re-runs the script with no change at all, and the clock *)
(* moves: any number of days may pass before a run starts, and midnight    *)
(* may pass between two reads of date.today() within one run.              *)
(***************************************************************************)
NextDay(d) == AddDays(d, 1)

ClockReads ==
    {c \in ClockDays \X ClockDays \X ClockDays :
        /\ DateLeq(today, c[1])
        /\ DateLeq(c[1], c[2]) /\ DateLeq(c[2], c[3])
        /\ c[3] \in {c[1], NextDay(c[1])}}

RerunAnyTime == \E c \in ClockReads : Rerun(c[1], c[2], c[3])

SetOrg ==
    \E v \in Orgs \ {org} :
        /\ org' = v
        /\ UNCHANGED <<imo, vessel_name, cert_valid_days, profile>>
        /\ RerunAnyTime

SetImo ==
    \E v \in Imos \ {imo} :
        /\ imo' = v
        /\ UNCHANGED <<org, vessel_name, cert_valid_days, profile>>
        /\ RerunAnyTime

SetVesselName ==
    \E v \in VesselNames \ {vessel_name} :
        /\ vessel_name' = v
        /\ UNCHANGED <<org, imo, cert_valid_days, profile>>
        /\ RerunAnyTime

SetCertValidDays ==
    \E v \in CertValidChoices \ {cert_valid_days} :
        /\ cert_valid_days' = v
        /\ UNCHANGED <<org, imo, vessel_name, profile>>
        /\ RerunAnyTime

\* st.download_button: a click re-runs the script on unchanged widgets
Download ==
    /\ UNCHANGED <<identity, profile>>
    /\ RerunAnyTime

NextCert ==
    \/ SetOrg
    \/ SetImo
    \/ SetVesselName
    \/ SetCertValidDays
    \/ Download

SpecCert == Init /\ [][NextCert]_vars

(***************************************************************************)
(* The modeled calculations as a function of arbitrary field values: the   *)
(* six enum fields are drawn from their vocabularies and one value outside *)
(* them, and the script is run once on them.                               *)
(***************************************************************************)
BOGUS == "not-in-vocabulary"

Unrendered ==
    /\ annual_fuel_tonnes = Unbound /\ annual_co2_tonnes = Unbound
    /\ age = Unbound /\ age_risk = Unbound /\ engine_risk = Unbound
    /\ retrofit_risk = Unbound /\ eu_risk = Unbound
    /\ fuel_pathway_risk = Unbound /\ risk_score = Unbound
    /\ posture = Unbound /\ annual_cost_est_eur = Unbound
    /\ levers = Unbound /\ dashboard_levers = Unbound
    /\ record = Unbound /\ pdf_levers = Unbound

InitRaw ==
    /\ today = StartDate
    /\ org = Defaults.org /\ imo = Defaults.imo
    /\ vessel_name = Defaults.vessel_name
    /\ cert_valid_days = Defaults.cert_valid_days
    /\ year_built = Defaults.year_built /\ dwt = Defaults.dwt
    /\ operating_days = Defaults.operating_days
    /\ ship_type \in DOMAIN SHIP_TYPE_MULT \cup {BOGUS}
    /\ engine_type \in DOMAIN ENGINE_RISK \cup {BOGUS}
    /\ fuel_type \in DOMAIN FUEL_EF_CO2 \cup {BOGUS}
    /\ speed_profile \in DOMAIN SPEED_MULT \cup {BOGUS}
    /\ retrofit_status \in DOMAIN RETROFIT_RISK \cup {BOGUS}
    /\ eu_exposure \in DOMAIN EU_RISK \cup {BOGUS}
    /\ Unrendered
    /\ phase = "input"

Evaluate ==
    /\ phase = "input"
    /\ UNCHANGED <<identity, profile>>
    /\ RerunNow

NextRaw == Evaluate

SpecRaw == InitRaw /\ [][NextRaw]_vars

(***************************************************************************)
(* The posture branch (146-153) as a function of the score: scores are     *)
(* drawn within PostureWindow thousandths of each threshold.               *)
(***************************************************************************)
Thousandth == ScoreUnit \div 1000

PostureProbes ==
    {t * ScoreUnit + k * Thousandth :
        t \in {35, 55, 75}, k \in (0 - PostureWindow)..PostureWindow}

InitPosture ==
    /\ today = StartDate
    /\ WidgetsAre(Defaults)
    /\ annual_fuel_tonnes = Unbound /\ annual_co2_tonnes = Unbound
    /\ age = Unbound /\ age_risk = Unbound /\ engine_risk = Unbound
    /\ retrofit_risk = Unbound /\ eu_risk = Unbound
    /\ fuel_pathway_risk = Unbound
    /\ risk_score \in {Bound(x) : x \in PostureProbes}
    /\ posture = Unbound /\ annual_cost_est_eur = Unbound
    /\ levers = Unbound /\ dashboard_levers = Unbound
    /\ record = Unbound /\ pdf_levers = Unbound
    /\ phase = "probe"

Classify ==
    /\ phase = "probe"
    /\ posture' = Bound(Posture(Val(risk_score)))
    /\ phase' = "classified"
    /\ UNCHANGED <<today, identity, profile, annual_fuel_tonnes,
                   annual_co2_tonnes, age, age_risk, engine_risk,
                   retrofit_risk, eu_risk, fuel_pathway_risk, risk_score,
                   annual_cost_est_eur, levers, dashboard_levers, record,
                   pdf_levers>>

NextPosture == Classify

SpecPosture == InitPosture /\ [][NextPosture]_vars

(***************************************************************************)
(* Properties.                                                             *)
(***************************************************************************)
Rendered == phase = "rendered"

ValidProfile ==
    /\ ship_type \in DOMAIN SHIP_TYPE_MULT
    /\ engine_type \in DOMAIN ENGINE_RISK
    /\ fuel_type \in DOMAIN FUEL_EF_CO2
    /\ speed_profile \in DOMAIN SPEED_MULT
    /\ retrofit_status \in DOMAIN RETROFIT_RISK
    /\ eu_exposure \in DOMAIN EU_RISK
    /\ year_built \in YEAR_MIN..today.year

\* C1: for every valid profile the composite risk score computed by the
\* scoring step lies in [0, 100] inclusive.
C1_RiskScoreInRange ==
    (Rendered /\ ValidProfile) =>
        /\ risk_score # Unbound
        /\ 0 <= Val(risk_score)
        /\ Val(risk_score) <= 100 * ScoreUnit

\* C1 witness: the oldest vessel with the worst choice in every table has
\* been scored (the largest score the tables allow, 96.67).
C1_Witness ==
    /\ Rendered /\ ValidProfile
    /\ year_built = YEAR_MIN /\ eu_exposure = "High"
    /\ retrofit_status = "None" /\ engine_type = "Unknown"
    /\ fuel_type = "HFO (Heavy Fuel Oil)"
    /\ Val(risk_score) > 96 * ScoreUnit

\* C2: the posture label is decided by the score alone, each bucket
\* including its lower boundary: >= 75 severe, [55, 75) high, [35, 55)
\* moderate, < 35 lower; so 75.0 is severe, 74.999 high, 55.0 high,
\* 35.0 moderate and 34.999 lower.
C2_PostureBuckets ==
    phase = "classified" =>
        LET sc == Val(risk_score)
            po == Val(posture)
        IN /\ (sc >= 75 * ScoreUnit) = (po = "SEVERE EXPOSURE")
           /\ (sc >= 55 * ScoreUnit /\ sc < 75 * ScoreUnit)
                  = (po = "HIGH EXPOSURE")
           /\ (sc >= 35 * ScoreUnit /\ sc < 55 * ScoreUnit)
                  = (po = "MODERATE EXPOSURE")
           /\ (sc < 35 * ScoreUnit) = (po = "LOWER EXPOSURE")
           /\ (sc = 75 * ScoreUnit - Thousandth => po = "HIGH EXPOSURE")
           /\ (sc = 55 * ScoreUnit => po = "HIGH EXPOSURE")
           /\ (sc = 35 * ScoreUnit => po = "MODERATE EXPOSURE")
           /\ (sc = 35 * ScoreUnit - Thousandth => po = "LOWER EXPOSURE")

\* C2 witness: the score 75.0 has been classified, as severe.
C2_Witness ==
    /\ phase = "classified"
    /\ Val(risk_score) = 75 * ScoreUnit
    /\ Val(posture) = "SEVERE EXPOSURE"

\* C3: for every valid profile each of the five normalized signals lies in
\* [0, 1] inclusive, also for year built 1970 and year built = current year
\* and for every engine type.
C3_SignalsInUnitRange ==
    (Rendered /\ ValidProfile) =>
        \A sig \in {eu_risk, age_risk, retrofit_risk, fuel_pathway_risk,
                    engine_risk} :
            /\ sig # Unbound
            /\ 0 <= Val(sig)
            /\ Val(sig) <= SignalUnit

\* C3 witness: a vessel built in 1970 with the engine type of the largest
\* factor has been evaluated, and its age signal is exactly 1.
C3_Witness ==
    /\ Rendered /\ ValidProfile
    /\ year_built = YEAR_MIN /\ engine_type = "Unknown"
    /\ Val(age_risk) = SignalUnit

EuRank == ("None" :> 0) @@ ("Partial" :> 1) @@ ("High" :> 2)

\* C4: an older vessel never has a lower age_risk than a younger one that
\* is otherwise the same, and moving eu_exposure along None -> Partial ->
\* High, all else fixed, never decreases eu_risk, the annual carbon cost or
\* the risk score.
C4_Monotone ==
    (Rendered /\ ValidProfile) =>
        /\ \A y \in YEAR_MIN..year_built :
               AgeRisk(Val(age) + (year_built - y)) >= Val(age_risk)
        /\ \A e \in DOMAIN EU_RISK :
               EuRank[e] >= EuRank[eu_exposure] =>
                   LET alt == Run([Widgets EXCEPT !.eu_exposure = e],
                                  today, today, today)
                   IN /\ Val(alt.eu_risk) >= Val(eu_risk)
                      /\ BigLeq(Val(annual_cost_est_eur),
                                Val(alt.annual_cost_est_eur))
                      /\ Val(alt.risk_score) >= Val(risk_score)

\* C4 witness: a vessel with emissions and partial EU exposure has been
\* evaluated; a younger and an older sample and a lower and a higher
\* exposure exist around it.
C4_Witness ==
    /\ Rendered /\ ValidProfile
    /\ eu_exposure = "Partial"
    /\ Val(annual_cost_est_eur) # <<>>
    /\ year_built > YEAR_MIN /\ year_built < today.year
    /\ Val(age_risk) > 0 /\ Val(age_risk) < SignalUnit

InvalidKeySupplied ==
    \/ ship_type \notin DOMAIN SHIP_TYPE_MULT
    \/ engine_type \notin DOMAIN ENGINE_RISK
    \/ fuel_type \notin DOMAIN FUEL_EF_CO2
    \/ speed_profile \notin DOMAIN SPEED_MULT
    \/ retrofit_status \notin DOMAIN RETROFIT_RISK
    \/ eu_exposure \notin DOMAIN EU_RISK

\* C5: when an enum field holds a value outside its vocabulary, the
\* evaluation ends in an invalid-key error and no risk score, carbon cost
\* or certificate record has been produced: nothing stands in for the
\* unknown key.
C5_InvalidKeyFailsFast ==
    (phase # "input" /\ InvalidKeySupplied) =>
        /\ phase = "KeyError"
        /\ risk_score = Unbound
        /\ posture = Unbound
        /\ annual_cost_est_eur = Unbound
        /\ record = Unbound

\* C5 witness: only eu_exposure is unknown; the script has run up to the
\* EU lookup (fuel and CO2 are computed) and stopped there.
C5_Witness ==
    /\ phase = "KeyError"
    /\ eu_exposure = BOGUS
    /\ ship_type # BOGUS /\ engine_type # BOGUS /\ fuel_type # BOGUS
    /\ speed_profile # BOGUS /\ retrofit_status # BOGUS
    /\ annual_co2_tonnes # Unbound /\ retrofit_risk # Unbound
    /\ eu_risk = Unbound

CertTuple(rec) ==
    <<rec.Organization, rec.IMO, rec.Vessel_name, rec.Valid_from,
      rec.Valid_until>>

\* C6: the certificate id is a function of (organization, IMO, vessel name,
\* valid_from, valid_until) only: two runs that build the same tuple
\* return the same identifier, whenever they are made.
C6_SameTupleSameId ==
    [][(Rendered /\ Rendered' /\
        CertTuple(Val(record')) = CertTuple(Val(record)))
            => Val(record').Certificate_ID = Val(record).Certificate_ID]_vars

\* C7: with retrofit Installed, EU exposure None, fuel Ammonia and age
\* below 20 the levers list is empty, and the dashboard and the certificate
\* record both carry the explicit "no levers" line.
C7_EmptyLevers ==
    (/\ Rendered /\ ValidProfile
     /\ retrofit_status = "Installed" /\ eu_exposure = "None"
     /\ fuel_type = "Ammonia (Green)" /\ Val(age) < 20) =>
        /\ levers = Bound(<<>>)
        /\ Val(dashboard_levers) = <<NO_LEVERS>>
        /\ Val(record).Levers = <<NO_LEVERS>>

\* C7 witness: such a vessel, 14 years old, has been evaluated.
C7_Witness ==
    /\ Rendered /\ ValidProfile
    /\ retrofit_status = "Installed" /\ eu_exposure = "None"
    /\ fuel_type = "Ammonia (Green)" /\ Val(age) = 14
    /\ Val(levers) = <<>>

\* the value an exact decimal n / 10^d takes over 1000^scale
Decimal(n, scale) == BigShift(BigOfInt(n), scale)

\* C8: Bulk carrier, DWT 60000, Normal speed, 300 operating days, HFO, built
\* 2010, current year 2024, 2-stroke low-speed, retrofit None, EU exposure
\* Partial give annual fuel 2160 t, annual CO2 6726.24 t, age_risk 0.36,
\* risk score 65.33 to two decimals, posture High, carbon cost 302680.8.
C8_ConcreteScenario ==
    (/\ Rendered
     /\ ship_type = "Bulk carrier" /\ dwt = 60000
     /\ speed_profile = "Normal" /\ operating_days = 300
     /\ fuel_type = "HFO (Heavy Fuel Oil)"
     /\ year_built = 2010 /\ Val(age) = 2024 - 2010
     /\ engine_type = "2-stroke low-speed"
     /\ retrofit_status = "None" /\ eu_exposure = "Partial") =>
        /\ Val(annual_fuel_tonnes) = Decimal(2160, FuelScale)
        /\ Val(annual_co2_tonnes) = BigMul(Decimal(672624, Co2Scale - 1), 10)
        /\ Val(age_risk) * 100 = 36 * SignalUnit
        /\ 2 * (Val(risk_score) * 100 - 6533 * ScoreUnit) <= ScoreUnit
        /\ 2 * (6533 * ScoreUnit - Val(risk_score) * 100) <= ScoreUnit
        /\ Val(posture) = "HIGH EXPOSURE"
        /\ Val(annual_cost_est_eur)
               = BigMul(Decimal(3026808, CostScale - 1), 100)

\* C8 witness: that profile has been evaluated in 2024.
C8_Witness ==
    /\ Rendered
    /\ ship_type = "Bulk carrier" /\ dwt = 60000
    /\ speed_profile = "Normal" /\ operating_days = 300
    /\ fuel_type = "HFO (Heavy Fuel Oil)"
    /\ year_built = 2010 /\ today.year = 2024 /\ Val(age) = 14
    /\ engine_type = "2-stroke low-speed"
    /\ retrofit_status = "None" /\ eu_exposure = "Partial"
    /\ Val(posture) = "HIGH EXPOSURE"

RuleOrder ==
    <<LEVER_RETROFIT, LEVER_ROUTING, LEVER_TRANSITION_FUEL, LEVER_METHANE,
      LEVER_AGE>>

RuleHolds(lever) ==
    \/ lever = LEVER_RETROFIT /\ retrofit_status = "None"
    \/ lever = LEVER_ROUTING /\ eu_exposure \in {"Partial", "High"}
    \/ lever = LEVER_TRANSITION_FUEL
         /\ fuel_type \in {"HFO (Heavy Fuel Oil)",
                           "MGO/MDO (Marine Gas Oil/Diesel)"}
    \/ lever = LEVER_METHANE /\ fuel_type = "LNG"
    \/ lever = LEVER_AGE /\ today.year - year_built >= 20

\* C9: the levers list holds exactly the levers whose rule holds for the
\* profile, in rule-declaration order (retrofit, routing, transition fuel,
\* methane slip, asset age); a computed list, empty or not, is a value
\* (never the unassigned name), and the record marks the empty list with
\* the "no levers" line and carries any other list as it is.
C9_LeversAreTheRuleMatches ==
    (Rendered /\ ValidProfile) =>
        /\ levers # Unbound
        /\ Val(levers) = SelectSeq(RuleOrder, RuleHolds)
        /\ (Val(levers) = <<>>) = (Val(record).Levers = <<NO_LEVERS>>)
        /\ (Val(levers) # <<>> => Val(record).Levers = Val(levers))

\* C9 witness: a 20-year-old LNG vessel with planned retrofit and no EU
\* exposure has been evaluated: methane slip, then asset age.
C9_Witness ==
    /\ Rendered /\ ValidProfile
    /\ fuel_type = "LNG" /\ retrofit_status = "Planned"
    /\ eu_exposure = "None" /\ Val(age) = 20
    /\ Val(levers) = <<LEVER_METHANE, LEVER_AGE>>

\* C10: the levers list never has more than 4 entries, so the first 4
\* entries of record["Levers"] that the certificate prints include every
\* line the dashboard shows.
C10_CertificateShowsAllLevers ==
    (Rendered /\ ValidProfile) =>
        /\ Len(Val(levers)) <= 4
        /\ \A i \in 1..Len(Val(dashboard_levers)) :
               \E j \in 1..Len(Val(pdf_levers)) :
                   Val(pdf_levers)[j] = Val(dashboard_levers)[i]

\* C10 witness: four levers have been computed and printed.
C10_Witness ==
    /\ Rendered /\ ValidProfile
    /\ Len(Val(levers)) = 4
    /\ Len(Val(pdf_levers)) = 4
====
